---- MODULE Spec2Model ----
(***************************************************************************)
(* genswaptrades: generate_trades (src/genswaptrades/trades.py) as a state *)
(* machine, one action per block of the function, followed by the caller's *)
(* print_trades(generate_trades(...)) (src/genswaptrades/cli.py).          *)
(*                                                                         *)
(* Numbers.  Amounts (notional, cashflow) are integers counting cents.     *)
(* Rates are integers counting 10^-9, one decimal more than the 8 the code *)
(* rounds rates to, so that a caller's bound with 9 decimals and the       *)
(* default second rate max_rate - 0.1*(max_rate - min_rate) of 8-decimal   *)
(* bounds are exact.  Products and quotients are computed exactly (MulDiv  *)
(* keeps every intermediate value inside 32 bits) and rounded half to even *)
(* as numpy.round does.  A division by zero yields a non-finite float in   *)
(* numpy; a trade record carries finite = FALSE for it.                    *)
(***************************************************************************)
EXTENDS Integers, Sequences, FiniteSets, TLC

VARIABLES
    call,                    \* the arguments as the caller supplied them
    fname,                   \* the input source: [exists, rows]
    min_rate, max_rate,      \* the function's locals (rounded in place)
    additional_trade_rates,  \* <<>> (None or empty) or <<r1, r2>>
    notional_rounded_sum, cashflow_rounded_sum,
    Ntrades,
    new_trades,
    reads,                   \* number of pd.read_csv calls made
    pc,
    outcome,                 \* how the call ended
    raised,                  \* the assertion of the validation that failed
    result,                  \* the returned list
    stdout                   \* what print_trades printed (a sequence of lines)

vars == <<call, fname, min_rate, max_rate, additional_trade_rates,
          notional_rounded_sum, cashflow_rounded_sum, Ntrades, new_trades,
          reads, pc, outcome, raised, result, stdout>>

----------------------------------------------------------------------------
(* Bounds and program constants *)

MaxRows == 2

RateDigits == 8

\* the tolerance 0.01 of the final self-check, in cents
ZeroSumTolerance == 1

RECURSIVE Pow10(_)
Pow10(n) == IF n = 0 THEN 1 ELSE 10 * Pow10(n - 1)

\* number of rate units in the rate 1.0
RateOne == 10 * Pow10(RateDigits)

----------------------------------------------------------------------------
(* Exact arithmetic *)

Abs(x) == IF x < 0 THEN -x ELSE x

Sign(x) == IF x < 0 THEN -1 ELSE IF x > 0 THEN 1 ELSE 0

RECURSIVE GCD(_, _)
GCD(a, b) == IF b = 0 THEN a ELSE GCD(b, a % b)

\* the digits of a factor are taken in the largest base B with B * d < 2^31
Base(d) == IF d <= 8388607 THEN 256 ELSE IF d <= 134217727 THEN 16 ELSE 2

\* from h = <<q, r>> with a * b = q * d + r to the same for a * (B * b + m)
Step(h, a, m, d, B) ==
    LET t == B * h[2]
        u == m * (a % d)
        r == (t % d) + (u % d)
    IN  <<B * h[1] + (t \div d) + m * (a \div d) + (u \div d) + (r \div d), r % d>>

\* <<q, r>> with a * b = q * d + r and 0 <= r < d, for a, b >= 0 and 0 < d <= 10^9
RECURSIVE MulDivNat(_, _, _)
MulDivNat(a, b, d) ==
    IF b = 0 THEN <<0, 0>>
    ELSE Step(MulDivNat(a, b \div Base(d), d), a, b % Base(d), d, Base(d))

\* the same for any signs of a and b (floor quotient); the common factor of
\* b and d is cancelled first and the smaller factor is the one taken by digits
MulDiv(a, b, d) ==
    LET g == GCD(Abs(b), d)
        x == Abs(a)
        y == Abs(b) \div g
        e == d \div g
        h == IF x < y THEN MulDivNat(y, x, e) ELSE MulDivNat(x, y, e)
    IN  IF Sign(a) * Sign(b) >= 0 THEN <<h[1], g * h[2]>>
        ELSE IF h[2] = 0 THEN <<-h[1], 0>>
        ELSE <<-h[1] - 1, d - g * h[2]>>

\* numpy.round / numpy.rint: nearest integer to q + r/d, ties to the even one
RoundHalfEven(q, r, d) ==
    IF 2 * r < d THEN q
    ELSE IF 2 * r > d THEN q + 1
    ELSE IF q % 2 = 0 THEN q ELSE q + 1

Round(h, d) == RoundHalfEven(h[1], h[2], d)

\* np.round(notional * rate, 2)
RoundedCashflow(notional, rate) == Round(MulDiv(notional, rate, RateOne), RateOne)

\* np.round(rate, 8)
RoundRate(rate) == 10 * RoundHalfEven(rate \div 10, rate % 10, 10)

\* np.round(cashflow_sum / notional_sum, 8), notional_sum # 0
RoundedQuotient(cs, ns) ==
    10 * Round(MulDiv(cs * Sign(ns), Pow10(RateDigits), Abs(ns)), Abs(ns))

\* np.round((ns * r2 - cs) / (r1 - r2), 2), r1 # r2
Trade1Notional(ns, cs, r1, r2) ==
    LET d == Abs(r1 - r2)
        s == Sign(r1 - r2)
        a == MulDiv(s * ns, r2, d)
        b == MulDiv(s * cs, RateOne, d)
        q == a[1] - b[1]
        r == a[2] - b[2]
    IN  IF r < 0 THEN RoundHalfEven(q - 1, r + d, d) ELSE RoundHalfEven(q, r, d)

RECURSIVE SumNotional(_)
SumNotional(rows) ==
    IF rows = <<>> THEN 0 ELSE Head(rows)[1] + SumNotional(Tail(rows))

RECURSIVE SumCashflowRounded(_)
SumCashflowRounded(rows) ==
    IF rows = <<>> THEN 0
    ELSE RoundedCashflow(Head(rows)[1], Head(rows)[2]) + SumCashflowRounded(Tail(rows))

----------------------------------------------------------------------------
(* Inputs *)

\* (min_rate, max_rate) as supplied: the defaults, a bound the candidate of
\* a 100.00 @ 0.05 book meets exactly, bounds with 9 decimals, equal bounds,
\* inverted bounds
BoundPairs ==
    { <<-100000000, 100000000>>,
      <<-100000000, 50000000>>,
      <<-50000001, 49999999>>,
      <<50000000, 50000000>>,
      <<100000000, -100000000>> }

FallbackValues == {-100000000, 0, 50000000, 100000000}

Fallbacks == {<<>>} \cup (FallbackValues \X FallbackValues)

\* rows of the input table: <<notional, rate>>
RowValues ==
    { <<56241, 230000000>>,
      <<10000, 50000000>>,
      <<-10000, 50000000>>,
      <<-10000, 100000000>>,
      <<300000000, 0>> }

RowLists == UNION {[1..n -> RowValues] : n \in 0..MaxRows}

Files == {[exists |-> FALSE, rows |-> <<>>]}
            \cup {[exists |-> TRUE, rows |-> rs] : rs \in RowLists}

----------------------------------------------------------------------------
(* generate_trades *)

DefaultRates(lo, hi) == <<hi, hi - (hi - lo) \div 10>>

\* faulty variant: any() where the code has all()
AllNonZero_Any(rates) == \E i \in 1..Len(rates) : rates[i] # 0

\* all(additional_trade_rates) != 0
AllNonZero(rates) == \A i \in 1..Len(rates) : rates[i] # 0

\* faulty variant: the upper bound is not checked
InRange_NoUpper(lo, rate, hi) == lo <= rate

\* faulty variant: the bounds are accepted in either order
InRange_EitherOrder(lo, rate, hi) ==
    \/ lo <= rate /\ rate <= hi
    \/ hi <= rate /\ rate <= lo

InRange(lo, rate, hi) == lo <= rate /\ rate <= hi

Init ==
    \E bp \in BoundPairs, fb \in Fallbacks, f \in Files :
        /\ call = [min_rate |-> bp[1], max_rate |-> bp[2], additional_trade_rates |-> fb]
        /\ fname = f
        /\ min_rate = bp[1]
        /\ max_rate = bp[2]
        /\ additional_trade_rates = fb
        /\ notional_rounded_sum = 0
        /\ cashflow_rounded_sum = 0
        /\ Ntrades = 0
        /\ new_trades = <<>>
        /\ reads = 0
        /\ pc = "validate"
        /\ outcome = "running"
        /\ raised = "none"
        /\ result = <<>>
        /\ stdout = <<>>

Fail(kind) ==
    /\ pc' = "done"
    /\ outcome' = kind

\* trades.py 41-51
RatesToUse == IF additional_trade_rates = <<>>
              THEN DefaultRates(min_rate, max_rate)
              ELSE additional_trade_rates

SuppliedRatesOk ==
    IF additional_trade_rates = <<>> THEN TRUE
    ELSE /\ additional_trade_rates[1] # additional_trade_rates[2]
         /\ AllNonZero(additional_trade_rates)

\* faulty variant: only the first rate is checked against the bounds
RatesInRange_FirstOnly == InRange(min_rate, RatesToUse[1], max_rate)

RatesInRange == \A i \in 1..2 : InRange(min_rate, RatesToUse[i], max_rate)

ValidateOk ==
    /\ pc = "validate"
    /\ SuppliedRatesOk
    /\ RatesInRange
    /\ additional_trade_rates' = RatesToUse
    /\ pc' = "round"
    /\ UNCHANGED <<raised, call, fname, min_rate, max_rate, notional_rounded_sum,
                   cashflow_rounded_sum, Ntrades, new_trades, reads, outcome,
                   result, stdout>>

\* the first assertion of trades.py 44-51 that fails, in the code's order
FailingAssertion ==
    IF additional_trade_rates # <<>>
          /\ additional_trade_rates[1] = additional_trade_rates[2]
    THEN "different"
    ELSE IF ~SuppliedRatesOk THEN "non-zero"
    ELSE IF ~RatesInRange THEN "range"
    ELSE "none"

ValidateFail ==
    /\ pc = "validate"
    /\ ~(SuppliedRatesOk /\ RatesInRange)
    /\ Fail("InvalidConfiguration")
    /\ raised' = FailingAssertion
    /\ UNCHANGED <<call, fname, min_rate, max_rate, additional_trade_rates,
                   notional_rounded_sum, cashflow_rounded_sum, Ntrades,
                   new_trades, reads, result, stdout>>

\* trades.py 54-55
RoundBounds ==
    /\ pc = "round"
    /\ min_rate' = RoundRate(min_rate)
    /\ max_rate' = RoundRate(max_rate)
    /\ pc' = "read"
    /\ UNCHANGED <<raised, call, fname, additional_trade_rates, notional_rounded_sum,
                   cashflow_rounded_sum, Ntrades, new_trades, reads, outcome,
                   result, stdout>>

\* trades.py 58-63
ReadCsv ==
    /\ pc = "read"
    /\ fname.exists
    /\ reads' = reads + 1
    /\ notional_rounded_sum' = SumNotional(fname.rows)
    /\ cashflow_rounded_sum' = SumCashflowRounded(fname.rows)
    /\ Ntrades' = Len(fname.rows)
    /\ pc' = "decide"
    /\ UNCHANGED <<raised, call, fname, min_rate, max_rate, additional_trade_rates,
                   new_trades, outcome, result, stdout>>

ReadCsvFail ==
    /\ pc = "read"
    /\ ~fname.exists
    /\ reads' = reads + 1
    /\ Fail("InputSourceError")
    /\ UNCHANGED <<raised, call, fname, min_rate, max_rate, additional_trade_rates,
                   notional_rounded_sum, cashflow_rounded_sum, Ntrades,
                   new_trades, result, stdout>>

\* faulty variant: no early exit
AlreadyZeroSum_NoExit == FALSE

\* trades.py 66
AlreadyZeroSum == notional_rounded_sum = 0 /\ cashflow_rounded_sum = 0

\* trades.py 66-68
NoTradesNeeded ==
    /\ pc = "decide"
    /\ AlreadyZeroSum
    /\ result' = <<>>
    /\ outcome' = "returned"
    /\ pc' = "print"
    /\ UNCHANGED <<raised, call, fname, min_rate, max_rate, additional_trade_rates,
                   notional_rounded_sum, cashflow_rounded_sum, Ntrades,
                   new_trades, reads, stdout>>

\* trades.py 76-82: the candidate rate, or np.inf
next_trade_rounded_rate ==
    IF notional_rounded_sum # 0
    THEN [inf |-> FALSE, rate |-> RoundedQuotient(cashflow_rounded_sum, notional_rounded_sum)]
    ELSE [inf |-> TRUE, rate |-> 0]

\* faulty variant: the bounds are exclusive
TwoTradesNecessary_Exclusive ==
    IF next_trade_rounded_rate.inf THEN TRUE
    ELSE \/ next_trade_rounded_rate.rate <= min_rate
         \/ next_trade_rounded_rate.rate >= max_rate

\* trades.py 84
TwoTradesNecessary ==
    IF next_trade_rounded_rate.inf THEN TRUE
    ELSE \/ next_trade_rounded_rate.rate < min_rate
         \/ next_trade_rounded_rate.rate > max_rate

Trade(no, notional, rate, cashflow) ==
    [no |-> no, notional |-> notional, rate |-> rate, cashflow |-> cashflow,
     finite |-> TRUE]

\* a trade whose notional and cashflow are inf or nan
NonFiniteTrade(no, rate) ==
    [no |-> no, notional |-> 0, rate |-> rate, cashflow |-> 0, finite |-> FALSE]

\* faulty variant: Ntrades is not incremented for the second trade
TwoTradesOf_SameNo(ns, cs, n, rates) ==
    LET trade_1_notional == Trade1Notional(ns, cs, rates[1], rates[2])
        trade_2_notional == -trade_1_notional - ns
    IN  IF rates[1] = rates[2]
        THEN << NonFiniteTrade(n + 1, rates[1]), NonFiniteTrade(n + 1, rates[2]) >>
        ELSE << Trade(n + 1, trade_1_notional, rates[1],
                      RoundedCashflow(trade_1_notional, rates[1])),
                Trade(n + 1, trade_2_notional, rates[2],
                      RoundedCashflow(trade_2_notional, rates[2])) >>

\* trades.py 88-107
TwoTradesOf(ns, cs, n, rates) ==
    LET trade_1_rate == rates[1]
        trade_2_rate == rates[2]
        trade_1_notional == Trade1Notional(ns, cs, trade_1_rate, trade_2_rate)
        trade_2_notional == -trade_1_notional - ns
    IN  IF trade_1_rate = trade_2_rate
        THEN << NonFiniteTrade(n + 1, trade_1_rate), NonFiniteTrade(n + 2, trade_2_rate) >>
        ELSE << Trade(n + 1, trade_1_notional, trade_1_rate,
                      RoundedCashflow(trade_1_notional, trade_1_rate)),
                Trade(n + 2, trade_2_notional, trade_2_rate,
                      RoundedCashflow(trade_2_notional, trade_2_rate)) >>

TwoTrades ==
    /\ pc = "decide"
    /\ ~AlreadyZeroSum
    /\ TwoTradesNecessary
    /\ new_trades' = TwoTradesOf(notional_rounded_sum, cashflow_rounded_sum,
                                 Ntrades, additional_trade_rates)
    /\ Ntrades' = Ntrades + 2
    /\ pc' = "check"
    /\ UNCHANGED <<raised, call, fname, min_rate, max_rate, additional_trade_rates,
                   notional_rounded_sum, cashflow_rounded_sum, reads, outcome,
                   result, stdout>>

\* trades.py 113-116
OneTradeOf(ns, cs, n, rate) == << Trade(n + 1, -ns, rate, -cs) >>

OneTrade ==
    /\ pc = "decide"
    /\ ~AlreadyZeroSum
    /\ ~TwoTradesNecessary
    /\ new_trades' = OneTradeOf(notional_rounded_sum, cashflow_rounded_sum,
                                Ntrades, next_trade_rounded_rate.rate)
    /\ Ntrades' = Ntrades + 1
    /\ pc' = "check"
    /\ UNCHANGED <<raised, call, fname, min_rate, max_rate, additional_trade_rates,
                   notional_rounded_sum, cashflow_rounded_sum, reads, outcome,
                   result, stdout>>

\* trades.py 119-121
RECURSIVE SumField(_, _)
SumField(trades, field) ==
    IF trades = <<>> THEN 0 ELSE Head(trades)[field] + SumField(Tail(trades), field)

AllFinite(trades) == \A i \in 1..Len(trades) : trades[i].finite

\* trades.py 124-125; a nan sum compares False
ZeroSumAchieved(ns, cs, trades) ==
    /\ AllFinite(trades)
    /\ Abs(ns + SumField(trades, "notional")) < ZeroSumTolerance
    /\ Abs(cs + SumField(trades, "cashflow")) < ZeroSumTolerance

\* trades.py 119-131
Return ==
    /\ pc = "check"
    /\ ZeroSumAchieved(notional_rounded_sum, cashflow_rounded_sum, new_trades)
    /\ notional_rounded_sum' = notional_rounded_sum + SumField(new_trades, "notional")
    /\ cashflow_rounded_sum' = cashflow_rounded_sum + SumField(new_trades, "cashflow")
    /\ result' = new_trades
    /\ outcome' = "returned"
    /\ pc' = "print"
    /\ UNCHANGED <<raised, call, fname, min_rate, max_rate, additional_trade_rates,
                   Ntrades, new_trades, reads, stdout>>

PostCheckFail ==
    /\ pc = "check"
    /\ ~ZeroSumAchieved(notional_rounded_sum, cashflow_rounded_sum, new_trades)
    /\ Fail("InternalInvariantViolation")
    /\ UNCHANGED <<raised, call, fname, min_rate, max_rate, additional_trade_rates,
                   notional_rounded_sum, cashflow_rounded_sum, Ntrades,
                   new_trades, reads, result, stdout>>

\* trades.py 144: one line per trade, the rate shown with 8 decimals
FormatTrade(trade) ==
    [label |-> "Trade", no |-> trade.no, notional |-> trade.notional,
     rate |-> RoundRate(trade.rate), cashflow |-> trade.cashflow]

format_trades(trades) == [i \in 1..Len(trades) |-> FormatTrade(trades[i])]

\* trades.py 147-155, called from cli.py 124-131
print_trades ==
    /\ pc = "print"
    /\ stdout' = IF result # <<>> THEN format_trades(result) ELSE stdout
    /\ pc' = "done"
    /\ UNCHANGED <<raised, call, fname, min_rate, max_rate, additional_trade_rates,
                   notional_rounded_sum, cashflow_rounded_sum, Ntrades,
                   new_trades, reads, outcome, result>>

Next ==
    \/ ValidateOk
    \/ ValidateFail
    \/ RoundBounds
    \/ ReadCsv
    \/ ReadCsvFail
    \/ NoTradesNeeded
    \/ TwoTrades
    \/ OneTrade
    \/ Return
    \/ PostCheckFail
    \/ print_trades

Spec == Init /\ [][Next]_vars

----------------------------------------------------------------------------
(* The call as its caller sees it *)

InputNotionalSum == SumNotional(fname.rows)

InputCashflowSum == SumCashflowRounded(fname.rows)

InputAlreadyZero == fname.exists /\ InputNotionalSum = 0 /\ InputCashflowSum = 0

SuppliedPair == call.additional_trade_rates

PairToUse ==
    IF SuppliedPair = <<>>
    THEN <<call.max_rate, call.max_rate - (call.max_rate - call.min_rate) \div 10>>
    ELSE SuppliedPair

PairDegenerate ==
    /\ SuppliedPair # <<>>
    /\ (SuppliedPair[1] = SuppliedPair[2] \/ SuppliedPair[1] = 0 \/ SuppliedPair[2] = 0)

PairOutOfRange ==
    \E i \in 1..2 : PairToUse[i] < call.min_rate \/ PairToUse[i] > call.max_rate

ConfigurationPasses == ~PairDegenerate /\ ~PairOutOfRange

Returned == outcome = "returned"

Generated == pc \in {"check", "print", "done"} /\ new_trades # <<>>

\* the candidate rate of the input, rounded to 8 decimals, lies within lo..hi
CandidateWithin(lo, hi) ==
    /\ InputNotionalSum # 0
    /\ lo <= RoundedQuotient(InputCashflowSum, InputNotionalSum)
    /\ RoundedQuotient(InputCashflowSum, InputNotionalSum) <= hi

----------------------------------------------------------------------------
(* Claims *)

\* C1: with a configuration that passes validation (bounds in order, the two
\* rates distinct, non-zero and within the bounds) the call never ends in
\* the failure of its final zero-sum self-check.
C1_ZeroSumSelfCheckNeverFails ==
    (/\ pc = "done"
     /\ ConfigurationPasses
     /\ call.min_rate <= call.max_rate
     /\ PairToUse[1] # PairToUse[2])
    => outcome # "InternalInvariantViolation"

\* C2 (as claimed): a returned list for aggregates not both zero has exactly
\* one trade iff the notional sum is non-zero and the candidate rate lies
\* within the bounds as supplied by the caller, and two trades otherwise.
C2_PathBySuppliedBounds ==
    (Returned /\ ~InputAlreadyZero)
    => /\ Len(result) \in {1, 2}
       /\ Len(result) = 1 <=> CandidateWithin(call.min_rate, call.max_rate)

\* C2 (amended): once the aggregates are found not both zero, exactly one
\* trade is generated iff the notional sum is non-zero and the candidate
\* rate lies within the bounds rounded to 8 decimals, and exactly two trades
\* otherwise; the generated list is the one returned.
C2_PathByRoundedBounds ==
    /\ Generated
       => /\ Len(new_trades) \in {1, 2}
          /\ Len(new_trades) = 1
               <=> CandidateWithin(10 * RoundHalfEven(call.min_rate \div 10, call.min_rate % 10, 10),
                                   10 * RoundHalfEven(call.max_rate \div 10, call.max_rate % 10, 10))
    /\ (Returned /\ ~InputAlreadyZero) => result = new_trades /\ Generated

\* C2 witness: one trade generated at a candidate rate equal to the rounded
\* max_rate and above the max_rate supplied.
C2_Witness ==
    /\ Generated
    /\ Len(new_trades) = 1
    /\ new_trades[1].rate = max_rate
    /\ new_trades[1].rate > call.max_rate

\* C3 (as claimed): every returned trade has a rate within the bounds as
\* supplied by the caller.
C3_RatesWithinSuppliedBounds ==
    Returned => \A i \in 1..Len(result) :
                    call.min_rate <= result[i].rate /\ result[i].rate <= call.max_rate

\* C3 (amended): the rates of two returned trades lie within the bounds as
\* supplied; the rate of a single returned trade lies within the bounds
\* rounded to 8 decimals.
C3_RatesWithinBounds ==
    Returned =>
        /\ Len(result) = 2 =>
              \A i \in 1..2 :
                  call.min_rate <= result[i].rate /\ result[i].rate <= call.max_rate
        /\ Len(result) = 1 =>
              /\ 10 * RoundHalfEven(call.min_rate \div 10, call.min_rate % 10, 10) <= result[1].rate
              /\ result[1].rate <= 10 * RoundHalfEven(call.max_rate \div 10, call.max_rate % 10, 10)

\* C3 witness: two trades returned at supplied fallback rates, one of them
\* equal to a bound.
C3_Witness ==
    /\ Returned
    /\ Len(result) = 2
    /\ SuppliedPair # <<>>
    /\ result[1].rate = call.max_rate
    /\ result[2].rate # result[1].rate

\* C4: a supplied fallback pair with equal rates or a zero rate makes the
\* call fail with the configuration error, whatever the input source holds,
\* without reading it and without returning trades.
C4_DegeneratePairRejected ==
    PairDegenerate =>
        /\ pc \in {"validate", "done"}
        /\ pc = "done" => outcome = "InvalidConfiguration"
        /\ reads = 0
        /\ result = <<>> /\ new_trades = <<>>

\* C4 witness: a zero rate in an in-range pair, over input that needs no
\* trade at all, ended in the configuration error.
C4_Witness ==
    /\ pc = "done"
    /\ outcome = "InvalidConfiguration"
    /\ SuppliedPair # <<>>
    /\ SuppliedPair[1] # SuppliedPair[2]
    /\ SuppliedPair[2] = 0
    /\ ~PairOutOfRange
    /\ InputAlreadyZero
    /\ Len(fname.rows) > 0

\* C5: a rate of the pair to be used outside the bounds makes the call fail
\* with the configuration error before the source is read and before any
\* aggregate is computed: never an input-source error, never the self-check
\* failure, never a returned list.
C5_OutOfRangeFailsFirst ==
    PairOutOfRange =>
        /\ pc \in {"validate", "done"}
        /\ pc = "done" => outcome = "InvalidConfiguration"
        /\ reads = 0
        /\ notional_rounded_sum = 0 /\ cashflow_rounded_sum = 0 /\ Ntrades = 0
        /\ result = <<>> /\ new_trades = <<>>

\* C5 witness: a well-formed pair with a rate above max_rate, over a source
\* that cannot be read, ended in the configuration error.
C5_Witness ==
    /\ pc = "done"
    /\ outcome = "InvalidConfiguration"
    /\ ~PairDegenerate
    /\ SuppliedPair # <<>>
    /\ call.min_rate <= call.max_rate
    /\ SuppliedPair[1] > call.max_rate
    /\ ~fname.exists

\* C6 (as claimed): input whose rounded sums are both zero yields the empty
\* list for every value of the bounds and of the fallback pair.
C6_NoOpForEveryConfiguration ==
    (pc = "done" /\ InputAlreadyZero) => (Returned /\ result = <<>>)

\* C6 (amended): input whose rounded sums are both zero yields the empty
\* list, rendered as the empty text, for every configuration that passes
\* validation.
C6_NoOpForValidConfiguration ==
    (pc = "done" /\ InputAlreadyZero /\ ConfigurationPasses)
    => /\ Returned
       /\ result = <<>>
       /\ format_trades(result) = <<>>
       /\ stdout = <<>>

\* C6 witness: rows that cancel, under a supplied pair and bounds other than
\* the defaults, returned no trade.
C6_Witness ==
    /\ pc = "done"
    /\ InputAlreadyZero
    /\ Len(fname.rows) = 2
    /\ SuppliedPair # <<>>
    /\ call.max_rate # -call.min_rate
    /\ Returned
    /\ result = <<>>

\* C7: with N existing rows the returned list has 0, 1 or 2 trades, numbered
\* N+1 and N+2, and of two trades the first is at r1 and the second at r2.
C7_SequenceNumbersAndOrder ==
    Returned =>
        /\ Len(result) \in 0..2
        /\ \A i \in 1..Len(result) : result[i].no = Len(fname.rows) + i
        /\ Len(result) = 2 =>
              /\ result[1].rate = PairToUse[1]
              /\ result[2].rate = PairToUse[2]

\* C7 witness: two trades returned after two existing rows.
C7_Witness ==
    /\ Returned
    /\ Len(fname.rows) = 2
    /\ Len(result) = 2
    /\ result[1].no = 3 /\ result[2].no = 4
    /\ result[1].rate # result[2].rate

\* C8: the two trades generated on the two-trade path are
\* (n1, r1, round(n1*r1, 2)) and (n2, r2, round(n2*r2, 2)), n1 and n2 being
\* finite amounts with n1 + n2 = -notional_sum.
C8_TwoTradeClosedForm ==
    (pc = "check" /\ Len(new_trades) = 2) =>
        /\ new_trades[1].finite /\ new_trades[2].finite
        /\ new_trades[1].rate = PairToUse[1]
        /\ new_trades[2].rate = PairToUse[2]
        /\ new_trades[1].notional + new_trades[2].notional = -InputNotionalSum
        /\ \A i \in 1..2 :
              new_trades[i].cashflow
                  = Round(MulDiv(new_trades[i].notional, new_trades[i].rate, RateOne), RateOne)

\* C9: every returned trade has cashflow = round(notional * rate, 2) for the
\* notional and the rate it is returned with.
C9_CashflowConsistent ==
    Returned => \A i \in 1..Len(result) :
                    result[i].cashflow
                        = Round(MulDiv(result[i].notional, result[i].rate, RateOne), RateOne)

\* C10: whenever the two-trade path is taken the two rates differ, so the
\* divisor r1 - r2 is not zero.
C10_TwoTradeRatesDiffer ==
    (pc = "decide" /\ ~AlreadyZeroSum /\ TwoTradesNecessary)
    => additional_trade_rates[1] # additional_trade_rates[2]

\* C11 (as claimed): with min_rate > max_rate the call fails with the
\* configuration error raised by the rate-range check, for every fallback
\* pair, supplied or default, and every list of existing transactions.
C11_InvertedBoundsFailInRangeCheck ==
    (pc = "done" /\ call.min_rate > call.max_rate)
    => (outcome = "InvalidConfiguration" /\ raised = "range")

\* C11 (amended): with min_rate > max_rate the call fails with the
\* configuration error before the source is read and never returns a list,
\* also over input whose aggregates are already zero.  The assertion that
\* fails is the rate-range check for the default pair and for a supplied
\* pair of distinct non-zero rates; a supplied pair with equal rates or a
\* zero rate fails the check of the pair, which comes first.
C11_InvertedBoundsRejected ==
    call.min_rate > call.max_rate =>
        /\ pc \in {"validate", "done"}
        /\ reads = 0
        /\ result = <<>> /\ new_trades = <<>> /\ stdout = <<>>
        /\ pc = "done" =>
              /\ outcome = "InvalidConfiguration"
              /\ raised = IF ~PairDegenerate THEN "range"
                          ELSE IF SuppliedPair[1] = SuppliedPair[2] THEN "different"
                          ELSE "non-zero"

\* C11 witness: inverted bounds with the default pair, over rows that
\* cancel, ended in the configuration error of the rate-range check.
C11_Witness ==
    /\ pc = "done"
    /\ call.min_rate > call.max_rate
    /\ SuppliedPair = <<>>
    /\ InputAlreadyZero
    /\ Len(fname.rows) = 2
    /\ outcome = "InvalidConfiguration"
    /\ raised = "range"

====
